---- MODULE Spec2Model ----
(***************************************************************************)
(* MimirP2PClient (src/shared/mimir/index.ts): the identify handshake of   *)
(* the discovery client, the peer directory (llmPeerMap), the pending      *)
(* request map (requests), the identify handler and the message relay.     *)
(*                                                                         *)
(* JavaScript runs every callback to its next await without interleaving,  *)
(* so one action is one such run: a notification handler, the continuation *)
(* of an await, a timer callback.                                          *)
(***************************************************************************)
EXTENDS Integers, Sequences, FiniteSets, TLC

VARIABLES
    llmPeerMap,   \* Set<LLMPeer>: objects in insertion order, one entry per object
    requests,     \* Map<string, string>: request_id -> full multiaddr
    att,          \* the dialDiscovery invocations, one per discovery notification
    removals,     \* history: request_id -> how its pending entry was removed
    idStream,     \* an inbound identify stream served by handleIdentify:
                  \*   seen: the packets read so far, sink: the frames written
    msgStream,    \* an inbound message stream served by handleProtocol:
                  \*   read: the packets read so far, sink: the frames written,
                  \*   by: history, the relay that wrote each frame of sink
    relays,       \* the handleMessage invocations started on msgStream
    send,         \* the sendMessage invocations
    inst,         \* the instance's configuration and what start() has done
    wire          \* a byte stream between sendToStream and receiveFromStream

vars == <<llmPeerMap, requests, att, removals, idStream, msgStream, relays,
          send, inst, wire>>

clientVars == <<llmPeerMap, requests, att, removals>>

nodeVars == <<idStream, msgStream, relays>>

otherVars == <<send, inst, wire>>

(***************************************************************************)
(* Bounds of the model.                                                    *)
(***************************************************************************)
MaxAttempts == 2      \* discovery notifications delivered
MaxQueries  == 3      \* packets a remote client writes on one identify stream
MaxMessages == 2      \* message packets a remote client writes on one stream
MaxChunks   == 3      \* chunks the backend yields, over all completions

Peers == {"peerA", "peerB", "peerC"}

Llama == "llama3.2:latest"

\* a model name a remote peer may list that the catalog does not have
Mistral == "mistral:latest"

\* a name that is no key of the catalog but that every JavaScript object
\* inherits from Object.prototype
Inherited == "constructor"

Chunks == {"a", "b"}

(***************************************************************************)
(* Static catalog, packets and the codec.                                  *)
(***************************************************************************)
llmCidMap == [m \in {Llama} |-> "QmNizEt5WLyEDUHMqsm89RHHNR63DYUSdtS38AeG4XUV6C"]

\* a property that is absent from a JavaScript object
undefined == <<>>

\* the n-th identifier randomUUID() returns: fresh on every call
randomUUID(n) == <<"uuid", n>>

MimirPacket(event, request_id, data) ==
    [event |-> event, request_id |-> request_id, data |-> data]

\* JSON.stringify leaves out a property whose value is undefined
JSONstringify(p) ==
    IF p.request_id = undefined
    THEN [event |-> p.event, data |-> p.data]
    ELSE [event |-> p.event, request_id |-> p.request_id, data |-> p.data]

\* JSON.parse: a property the text does not have reads as undefined
JSONparse(text) ==
    IF "request_id" \in DOMAIN text
    THEN MimirPacket(text.event, text.request_id, text.data)
    ELSE MimirPacket(text.event, undefined, text.data)

\* lp.encode: the payload behind its length
lpEncode(text) == [length |-> Cardinality(DOMAIN text), payload |-> text]

\* sendToStream: one length-prefixed JSON frame appended to the sink
sendToStream(sink, p) == Append(sink, lpEncode(JSONstringify(p)))

\* receiveFromStream on the frames of a sink: lp.decode, then JSON.parse
RECURSIVE receiveFromStream(_)
receiveFromStream(frames) ==
    IF frames = <<>> THEN <<>>
    ELSE <<JSONparse(Head(frames).payload)>> \o receiveFromStream(Tail(frames))

(***************************************************************************)
(* Inputs: what a remote peer may put on a stream this instance reads.     *)
(***************************************************************************)
AllIds == {randomUUID(n) : n \in 1..MaxAttempts}

\* model lists a response packet may carry: empty, the catalog's model once
\* and twice, a name the catalog does not have, and an inherited name
ModelLists ==
    {<<>>, <<Llama>>, <<Llama, Llama>>, <<Mistral, Llama>>, <<Inherited, Llama>>}

\* bytes that lp.decode or JSON.parse rejects
NonJson == MimirPacket("#nonjson", undefined, <<>>)

\* packets a remote peer may send on an identify stream the client opened
InboundPackets ==
    {MimirPacket("response", r, d) : r \in AllIds \cup {undefined}, d \in ModelLists}
        \cup {MimirPacket("completionPacket", undefined, <<>>), NonJson}

(***************************************************************************)
(* PeerDirectory (llmPeerMap) and the pending map (requests).              *)
(***************************************************************************)
\* mutant of LLMPeer: the record names a peer other than the one passed in
LLMPeerOther(peerId, llmCID) ==
    [peerId |-> CHOOSE p \in Peers : p # peerId, llmCID |-> llmCID]

\* { peerId, llmCID: CID.parse(llmCID) }
LLMPeer(peerId, llmCID) == [peerId |-> peerId, llmCID |-> llmCID]

\* Set.add of a freshly built object: a Set of objects compares by identity,
\* so the new object is always a new member, whatever its fields
SetAdd(set, obj) == Append(set, obj)

\* Map.has / Map.set / Map.delete
MapHas(map, key) == key \in DOMAIN map

MapSet(map, key, value) ==
    [k \in DOMAIN map \cup {key} |-> IF k = key THEN value ELSE map[k]]

MapDelete(map, key) == [k \in DOMAIN map \ {key} |-> map[k]]

\* the multiaddr dialDiscovery dials and stores under the request id
fullMultiaddr(peerId) == <<"ma", "p2p", peerId>>

\* mutant of AddModels: the model name is stored in place of the catalog's
\* content address
RECURSIVE AddModelsUnresolved(_, _, _)
AddModelsUnresolved(set, peerId, data) ==
    IF data = <<>> THEN set
    ELSE AddModelsUnresolved(SetAdd(set, LLMPeer(peerId, Head(data))),
                             peerId, Tail(data))

\* llmCidMap[model] is a property read on an object literal: for an inherited
\* name it yields a function, which passes if (llmCID), and CID.parse of a
\* function throws
CIDparseThrows(data) == \E i \in DOMAIN data : data[i] = Inherited

\* for (const model of data) { const llmCID = llmCidMap[model]; if (llmCID) add }
\* The loop ends where CID.parse throws.
RECURSIVE AddModels(_, _, _)
AddModels(set, peerId, data) ==
    IF data = <<>> \/ Head(data) = Inherited THEN set
    ELSE AddModels(
             IF Head(data) \in DOMAIN llmCidMap
             THEN SetAdd(set, LLMPeer(peerId, llmCidMap[Head(data)]))
             ELSE set,
             peerId, Tail(data))

\* the records of one peer, and of one (peer, content address) pair
RecordsOf(set, peerId) == {i \in 1..Len(set) : set[i].peerId = peerId}

IsPeer(peer, peerId) == peer.peerId = peerId

\* mutant of DeletePeer: the loop stops at the first record it deletes
RECURSIVE DeletePeerFirstOnly(_, _)
DeletePeerFirstOnly(set, peerId) ==
    IF set = <<>> THEN <<>>
    ELSE IF IsPeer(Head(set), peerId)
         THEN Tail(set)
         ELSE <<Head(set)>> \o DeletePeerFirstOnly(Tail(set), peerId)

\* llmPeerMap.forEach(peer => { if (peer.peerId.equals(peerId)) delete(peer) })
RECURSIVE DeletePeer(_, _)
DeletePeer(set, peerId) ==
    IF set = <<>> THEN <<>>
    ELSE IF IsPeer(Head(set), peerId)
         THEN DeletePeer(Tail(set), peerId)
         ELSE <<Head(set)>> \o DeletePeer(Tail(set), peerId)

(***************************************************************************)
(* One dialDiscovery invocation.                                           *)
(*   pc      where the async function is suspended or how it ended         *)
(*   stream  the identify stream: "null", "open" or "closed"               *)
(*   timer   the setTimeout callback: "none", "armed", "rejected" (it      *)
(*           removed the entry and rejected the timeout promise) or        *)
(*           "noop" (it ran and found no entry)                            *)
(*   reader  the response task: "none", "reading", "done" or "threw"       *)
(*   caller  what onDiscovery's await of dialDiscovery received            *)
(*   sink    the frames written on the stream                              *)
(*   got     history: the packet the reader consumed                       *)
(*   dials   history: the protocol ids of the dialProtocol calls            *)
(*   lost    history: the directory as the last peer:disconnect             *)
(*           notification for the peer found it, if one was processed       *)
(*           while the invocation could still add a record                  *)
(***************************************************************************)
NewAttempt(peerId, n) ==
    [peerId |-> peerId, request_id |-> randomUUID(n), pc |-> "peerStore.get",
     stream |-> "null", timer |-> "none", reader |-> "none",
     caller |-> "awaiting", sink |-> <<>>, got |-> <<>>, dials |-> <<>>,
     lost |-> <<>>]

(***************************************************************************)
(* The instance: its configuration and what start() has done so far.       *)
(* A protocol id is the tuple of its path segments: '/mimirllm/1.0.0' is   *)
(* <<"mimirllm", "1.0.0">>.                                                *)
(*   config     MimirConfig; the key protocol is absent when not given     *)
(*   protocol   the private field the constructor sets                     *)
(*   pc         where start() is suspended or how it ended                 *)
(*   listeners  the events addEventListener was called for                 *)
(*   handlers   the protocol ids libp2p.handle was called with             *)
(*   provide    the promise of contentRouting.provide: "none", "pending",  *)
(*              "resolved" or "rejected"; nobody awaits it                 *)
(*   exited     the runtime ended the process on an unhandled rejection    *)
(*   announced  history: the peers announced to an instance that does not  *)
(*              listen for peer:discovery                                  *)
(***************************************************************************)
DefaultProtocol == <<"mimirllm", "1.0.0">>

\* this.protocol = config.protocol || '/mimirllm/1.0.0'
MimirP2PClient(config) ==
    [config |-> config,
     protocol |-> IF "protocol" \in DOMAIN config THEN config.protocol
                  ELSE DefaultProtocol,
     pc |-> "constructed", listeners |-> {}, handlers |-> {},
     provide |-> "none", exited |-> FALSE, announced |-> {}]

\* this.config.protocol: undefined when the configuration has no protocol
configProtocol(config) ==
    IF "protocol" \in DOMAIN config THEN config.protocol ELSE undefined

\* protocol + '/segment': string concatenation prints undefined as 'undefined'
Concat(protocol, segment) ==
    IF protocol = undefined THEN <<"undefined", segment>>
    ELSE Append(protocol, segment)

\* a byte stream nothing was written on
NoTraffic ==
    [sent |-> <<>>, bytes |-> <<>>, buffer |-> <<>>, received |-> <<>>,
     threw |-> FALSE]

\* Spec, IdentifySpec and RelaySpec take up an instance after start()
Init ==
    /\ llmPeerMap = <<>>
    /\ requests = <<>>
    /\ att = <<>>
    /\ removals = [r \in AllIds |-> <<>>]
    /\ idStream = [seen |-> <<>>, sink |-> <<>>, handler |-> "reading"]
    /\ msgStream = [read |-> 0, sink |-> <<>>, by |-> <<>>, handler |-> "reading"]
    /\ relays = <<>>
    /\ send = <<>>
    /\ inst = MimirP2PClient([mode |-> "client"])
    /\ wire = NoTraffic

Removed(r, how) == [removals EXCEPT ![r] = Append(@, how)]

\* onDiscovery: a peer:discovery notification starts dialDiscovery, which draws
\* its request id and awaits the peer store
onDiscovery(peerId) ==
    /\ Len(att) < MaxAttempts
    /\ att' = Append(att, NewAttempt(peerId, Len(att) + 1))
    /\ UNCHANGED <<llmPeerMap, requests, removals>>
    /\ UNCHANGED nodeVars
    /\ UNCHANGED otherVars

\* peerStore.get resolves with an address: dialDiscovery enters its try block
\* and awaits dialProtocol
peerStoreGetResolves(a) ==
    /\ att[a].pc = "peerStore.get"
    /\ att' = [att EXCEPT
           ![a].pc = "dialProtocol",
           ![a].dials = Append(@, Concat(configProtocol(inst.config), "identify"))]
    /\ UNCHANGED <<llmPeerMap, requests, removals>>
    /\ UNCHANGED nodeVars
    /\ UNCHANGED otherVars

\* peerStore.get rejects (or the peer has no address): the error leaves
\* dialDiscovery, outside its try block, and onDiscovery catches and logs it
peerStoreGetRejects(a) ==
    /\ att[a].pc = "peerStore.get"
    /\ att' = [att EXCEPT ![a].pc = "thrown", ![a].caller = "Error"]
    /\ UNCHANGED <<llmPeerMap, requests, removals>>
    /\ UNCHANGED nodeVars
    /\ UNCHANGED otherVars

\* dialProtocol resolves: the stream is open, the pending entry is set and
\* sendToStream is awaited
dialProtocolResolves(a) ==
    /\ att[a].pc = "dialProtocol"
    /\ requests' = MapSet(requests, att[a].request_id, fullMultiaddr(att[a].peerId))
    /\ att' = [att EXCEPT ![a].pc = "sendToStream", ![a].stream = "open"]
    /\ UNCHANGED <<llmPeerMap, removals>>
    /\ UNCHANGED nodeVars
    /\ UNCHANGED otherVars

\* mutant of dialProtocolRejects: the catch block dials again
dialProtocolRetries(a) ==
    /\ att[a].pc = "dialProtocol"
    /\ Len(att[a].dials) < 3
    /\ att' = [att EXCEPT
           ![a].dials = Append(@, Concat(configProtocol(inst.config), "identify"))]
    /\ UNCHANGED <<llmPeerMap, requests, removals>>
    /\ UNCHANGED nodeVars
    /\ UNCHANGED otherVars

\* dialProtocol rejects: the catch block logs; stream is still null
dialProtocolRejects(a) ==
    /\ att[a].pc = "dialProtocol"
    /\ att' = [att EXCEPT ![a].pc = "caught", ![a].caller = "returned"]
    /\ UNCHANGED <<llmPeerMap, requests, removals>>
    /\ UNCHANGED nodeVars
    /\ UNCHANGED otherVars

\* the query is written: the timer is set, the response task starts reading,
\* and dialDiscovery returns without awaiting either
sendQueryResolves(a) ==
    /\ att[a].pc = "sendToStream"
    /\ att' = [att EXCEPT
           ![a].sink = sendToStream(@, MimirPacket("query", att[a].request_id,
                                                   llmCidMap[Llama])),
           ![a].pc = "started", ![a].timer = "armed", ![a].reader = "reading",
           ![a].caller = "returned"]
    /\ UNCHANGED <<llmPeerMap, requests, removals>>
    /\ UNCHANGED nodeVars
    /\ UNCHANGED otherVars

\* writing the query fails: the catch block closes the stream and logs; no
\* timer was set and no response task was started
sendQueryRejects(a) ==
    /\ att[a].pc = "sendToStream"
    /\ att' = [att EXCEPT ![a].pc = "caught", ![a].stream = "closed",
                          ![a].caller = "returned"]
    /\ UNCHANGED <<llmPeerMap, requests, removals>>
    /\ UNCHANGED nodeVars
    /\ UNCHANGED otherVars

\* the setTimeout callback
timerFires(a) ==
    /\ att[a].timer = "armed"
    /\ IF MapHas(requests, att[a].request_id)
       THEN /\ requests' = MapDelete(requests, att[a].request_id)
            /\ removals' = Removed(att[a].request_id, "timeout")
            /\ att' = [att EXCEPT ![a].timer = "rejected", ![a].stream = "closed"]
       ELSE /\ att' = [att EXCEPT ![a].timer = "noop"]
            /\ UNCHANGED <<requests, removals>>
    /\ UNCHANGED llmPeerMap
    /\ UNCHANGED nodeVars
    /\ UNCHANGED otherVars

\* mutant of Accepts: the pending map is not consulted
AcceptsAnyResponse(msg) == msg.event = "response"

\* the response task accepts a packet
Accepts(msg) == msg.event = "response" /\ MapHas(requests, msg.request_id)

\* the response task's for-await body on the first packet of the stream: an
\* accepted response removes the pending entry and adds the records; then the
\* stream is closed and the loop left, unless CID.parse threw out of the task
receiveResponse(a, msg) ==
    /\ att[a].reader = "reading"
    /\ msg # NonJson
    /\ IF Accepts(msg)
       THEN /\ requests' = MapDelete(requests, msg.request_id)
            /\ removals' = Removed(msg.request_id, "response")
            /\ llmPeerMap' = AddModels(llmPeerMap, att[a].peerId, msg.data)
       ELSE UNCHANGED <<llmPeerMap, requests, removals>>
    /\ att' = [att EXCEPT
           ![a].reader = IF Accepts(msg) /\ CIDparseThrows(msg.data)
                         THEN "threw" ELSE "done",
           ![a].stream = IF Accepts(msg) /\ CIDparseThrows(msg.data)
                         THEN @ ELSE "closed",
           ![a].got = <<[msg |-> msg, accepted |-> Accepts(msg),
                         late |-> /\ msg.request_id \in AllIds
                                  /\ removals[msg.request_id] = <<"timeout">>]>>]
    /\ UNCHANGED nodeVars
    /\ UNCHANGED otherVars

\* the first frame does not decode: receiveFromStream throws inside the
\* response task, whose promise nobody awaits
receiveNonJson(a) ==
    /\ att[a].reader = "reading"
    /\ att' = [att EXCEPT ![a].reader = "threw", ![a].got = <<[msg |-> NonJson,
                              accepted |-> FALSE, late |-> FALSE]>>]
    /\ UNCHANGED <<llmPeerMap, requests, removals>>
    /\ UNCHANGED nodeVars
    /\ UNCHANGED otherVars

\* the stream's source ends with no packet: the for-await loop ends
sourceEnds(a) ==
    /\ att[a].reader = "reading"
    /\ att' = [att EXCEPT ![a].reader = "done"]
    /\ UNCHANGED <<llmPeerMap, requests, removals>>
    /\ UNCHANGED nodeVars
    /\ UNCHANGED otherVars

\* the invocation has not ended and its response task has consumed nothing
Pending(a) ==
    /\ att[a].pc \notin {"thrown", "caught"}
    /\ att[a].reader \in {"none", "reading"}

\* mutant of onDisconnect: the pending requests addressed to the peer are
\* dropped with its records
onDisconnectForgets(peerId) ==
    /\ llmPeerMap' = DeletePeer(llmPeerMap, peerId)
    /\ att' = [a \in 1..Len(att) |->
                  IF att[a].peerId = peerId /\ Pending(a)
                  THEN [att[a] EXCEPT !.lost = <<llmPeerMap>>] ELSE att[a]]
    /\ requests' = [r \in {k \in DOMAIN requests :
                              requests[k] # fullMultiaddr(peerId)} |-> requests[r]]
    /\ UNCHANGED removals
    /\ UNCHANGED nodeVars
    /\ UNCHANGED otherVars

\* onDisconnect: a peer:disconnect notification.  Only llmPeerMap is touched;
\* the invocations for the peer go on, and the history notes which of them
\* were pending.
onDisconnect(peerId) ==
    /\ llmPeerMap' = DeletePeer(llmPeerMap, peerId)
    /\ att' = [a \in 1..Len(att) |->
                  IF att[a].peerId = peerId /\ Pending(a)
                  THEN [att[a] EXCEPT !.lost = <<llmPeerMap>>] ELSE att[a]]
    /\ UNCHANGED <<requests, removals>>
    /\ UNCHANGED nodeVars
    /\ UNCHANGED otherVars

Next ==
    \/ \E p \in Peers : onDiscovery(p)
    \/ \E p \in Peers : onDisconnect(p)
    \/ \E a \in 1..Len(att) : peerStoreGetResolves(a)
    \/ \E a \in 1..Len(att) : peerStoreGetRejects(a)
    \/ \E a \in 1..Len(att) : dialProtocolResolves(a)
    \/ \E a \in 1..Len(att) : dialProtocolRejects(a)
    \/ \E a \in 1..Len(att) : sendQueryResolves(a)
    \/ \E a \in 1..Len(att) : sendQueryRejects(a)
    \/ \E a \in 1..Len(att) : timerFires(a)
    \/ \E a \in 1..Len(att) : receiveNonJson(a)
    \/ \E a \in 1..Len(att) : sourceEnds(a)
    \/ \E a \in 1..Len(att) : \E msg \in InboundPackets : receiveResponse(a, msg)

Spec == Init /\ [][Next]_vars

(***************************************************************************)
(* Claims about the discovery client.                                      *)
(***************************************************************************)
Attempts == 1..Len(att)

Consumed(a) == att[a].got # <<>>

Got(a) == att[a].got[1]

\* the response task accepted a response and CID.parse threw in its loop
ThrewInLoop(a) ==
    Consumed(a) /\ Got(a).accepted /\ CIDparseThrows(Got(a).msg.data)

\* C1: llmPeerMap holds at most one record per (peer identity, content
\* address) pair, so a repeated identify of one peer, or a response listing a
\* model twice, adds no second record for the pair.
C1_OneRecordPerPair ==
    \A i, j \in 1..Len(llmPeerMap) :
        i # j => llmPeerMap[i] # llmPeerMap[j]

\* C2: a response packet for request id R consumed after the timeout for R
\* has fired changes neither llmPeerMap nor requests.
C2_LateResponseIgnored ==
    [][\A a \in Attempts : \A msg \in InboundPackets :
          ( /\ receiveResponse(a, msg)
            /\ msg.event = "response"
            /\ msg.request_id \in AllIds
            /\ removals[msg.request_id] = <<"timeout">> )
          => (llmPeerMap' = llmPeerMap /\ requests' = requests)]_vars

\* a response for an id whose timeout had fired was consumed and not accepted
C2_Witness ==
    \E a \in Attempts :
        /\ Consumed(a)
        /\ Got(a).msg.event = "response"
        /\ Got(a).late
        /\ ~Got(a).accepted

\* C3: when the timeout of an identify query fires, the pending entry is
\* removed and the caller of dialDiscovery receives a TimeoutError.
C3_TimeoutDeliveredToCaller ==
    \A a \in Attempts :
        att[a].timer = "rejected" =>
            /\ ~MapHas(requests, att[a].request_id)
            /\ att[a].caller = "TimeoutError"

\* C4: the pending entry of every request id is removed at most once, by the
\* response or by the timeout, and when a response and the timer are both ready
\* to run it is the timeout that removes it.
C4_ExactlyOnceTimeoutWins ==
    /\ [](\A r \in AllIds : Len(removals[r]) <= 1)
    /\ [][\A a \in Attempts :
             ( /\ att[a].timer = "armed"
               /\ att[a].reader = "reading"
               /\ MapHas(requests, att[a].request_id) )
             => removals'[att[a].request_id] # <<"response">>]_vars

\* C5: the pending entry of a dialDiscovery invocation does not outlive the
\* invocation: once the invocation has ended in its catch block, with no timer
\* set and no response task started, its entry is gone.
C5_NoEntryOutlivesAttempt ==
    \A a \in Attempts :
        att[a].pc = "caught" => ~MapHas(requests, att[a].request_id)

\* C6: a disconnect notification for a peer with N records leaves no record
\* of that peer and makes llmPeerMap exactly N records shorter.
C6_DisconnectRemovesAll ==
    [][\A p \in Peers :
          onDisconnect(p) =>
              /\ RecordsOf(llmPeerMap', p) = {}
              /\ Len(llmPeerMap') =
                     Len(llmPeerMap) - Cardinality(RecordsOf(llmPeerMap, p))]_vars

\* a peer whose response added two records has none left, while a record of
\* another peer is still there
C6_Witness ==
    \E a \in Attempts :
        /\ Consumed(a)
        /\ Got(a).accepted
        /\ Got(a).msg.data = <<Llama, Llama>>
        /\ RecordsOf(llmPeerMap, att[a].peerId) = {}
        /\ llmPeerMap # <<>>

\* C7: with no record for the dialed peer, processing the response to the
\* query that lists "llama3.2:latest" leaves exactly one record for that peer,
\* with the catalog's content address, and no pending entry for the query.
C7_IdentifyAddsOneRecord ==
    [][\A a \in Attempts : \A msg \in InboundPackets :
          ( /\ receiveResponse(a, msg)
            /\ Accepts(msg)
            /\ msg.request_id = att[a].request_id
            /\ msg.data = <<Llama>>
            /\ RecordsOf(llmPeerMap, att[a].peerId) = {} )
          => /\ Cardinality(RecordsOf(llmPeerMap', att[a].peerId)) = 1
             /\ \A i \in RecordsOf(llmPeerMap', att[a].peerId) :
                    llmPeerMap'[i].llmCID = llmCidMap[Llama]
             /\ ~MapHas(requests', att[a].request_id)]_vars

C7_Witness ==
    \E a \in Attempts :
        /\ Consumed(a)
        /\ Got(a).accepted
        /\ Got(a).msg = MimirPacket("response", att[a].request_id, <<Llama>>)
        /\ Cardinality(RecordsOf(llmPeerMap, att[a].peerId)) = 1
        /\ ~MapHas(requests, att[a].request_id)

\* how an attempt can have failed: a rejected peer store lookup, a failed dial
\* or send, a first frame that does not decode, a model name CID.parse throws
\* on, the timeout
Failed(a) ==
    \/ att[a].pc \in {"thrown", "caught"}
    \/ att[a].reader = "threw"
    \/ att[a].timer = "rejected"

\* the failure left a promise rejected that no code awaits or catches: the
\* timeout promise, or the response task's promise
Unhandled(a) == att[a].timer = "rejected" \/ att[a].reader = "threw"

\* C13: a failure in one discovery attempt is contained: it is caught and
\* logged and never surfaces as an uncaught error.
C13_FailureContained ==
    \A a \in Attempts : Failed(a) => ~Unhandled(a)

\* the part of C13 the code keeps: a step in which an attempt fails, other
\* than by a throw after its response task accepted a response, leaves the
\* directory and the pending entries of the other attempts unchanged
FailureLeavesOthers ==
    [][\A a \in Attempts :
           ~Failed(a) /\ Failed(a)' /\ ~ThrewInLoop(a)' =>
               /\ llmPeerMap' = llmPeerMap
               /\ \A r \in AllIds \ {att[a].request_id} :
                      MapHas(requests, r) <=> MapHas(requests', r)]_vars

\* C14: the identify handshake is single-shot.  Every discovery notification
\* starts one attempt, and an attempt dials the identify protocol at most
\* once and writes at most one packet, a query; once it has failed (dial or
\* send failure, malformed response, timeout) it dials and writes no more.
C14_SingleShot ==
    [][\A a \in 1..Len(att') :
           /\ Len(att'[a].dials) <= 1
           /\ Len(att'[a].sink) <= 1
           /\ \A f \in 1..Len(att'[a].sink) :
                  JSONparse(att'[a].sink[f].payload).event = "query"
           /\ a \in Attempts /\ Failed(a) =>
                  /\ att'[a].dials = att[a].dials
                  /\ att'[a].sink = att[a].sink]_vars

\* one attempt's dial failed and another timed out after its query and then
\* saw its stream end
C14_Witness ==
    \E a, b \in Attempts :
        /\ att[a].pc = "caught" /\ att[a].stream = "null"
        /\ Len(att[a].dials) = 1 /\ att[a].sink = <<>>
        /\ att[b].timer = "rejected" /\ att[b].reader = "done"
        /\ Len(att[b].dials) = 1 /\ Len(att[b].sink) = 1

(***************************************************************************)
(* Node role: handleIdentify on one inbound identify stream.               *)
(***************************************************************************)
\* packets a remote client may write on an identify stream
IdentifyInbound ==
    {MimirPacket("query", r, llmCidMap[Llama]) : r \in AllIds \cup {undefined}}
        \cup {MimirPacket("command", undefined, llmCidMap[Llama]), NonJson}

\* mutant of IdentifyResponse: the request id is not echoed
IdentifyResponseNoEcho(msg) == MimirPacket("response", undefined, <<Llama>>)

\* the packet handleIdentify answers a query with
IdentifyResponse(msg) == MimirPacket("response", msg.request_id, <<Llama>>)

IdentifyReads(msg) ==
    /\ idStream.handler = "reading"
    /\ Len(idStream.seen) < MaxQueries

\* a query is read and its response written before the next packet is read
handleIdentifyQuery(msg) ==
    /\ IdentifyReads(msg)
    /\ msg.event = "query"
    /\ idStream' = [idStream EXCEPT
           !.seen = Append(@, msg),
           !.sink = sendToStream(@, IdentifyResponse(msg))]
    /\ UNCHANGED <<msgStream, relays>>
    /\ UNCHANGED clientVars
    /\ UNCHANGED otherVars

\* a query is read and writing its response fails: sendToStream throws out
\* of the for-await loop and handleIdentify ends
handleIdentifyWriteFails(msg) ==
    /\ IdentifyReads(msg)
    /\ msg.event = "query"
    /\ idStream' = [idStream EXCEPT
           !.seen = Append(@, msg), !.handler = "sendToStream threw"]
    /\ UNCHANGED <<msgStream, relays>>
    /\ UNCHANGED clientVars
    /\ UNCHANGED otherVars

\* a packet of another event is read and skipped
handleIdentifyOther(msg) ==
    /\ IdentifyReads(msg)
    /\ msg.event # "query"
    /\ msg # NonJson
    /\ idStream' = [idStream EXCEPT !.seen = Append(@, msg)]
    /\ UNCHANGED <<msgStream, relays>>
    /\ UNCHANGED clientVars
    /\ UNCHANGED otherVars

\* a frame does not decode: receiveFromStream throws and handleIdentify ends
handleIdentifyNonJson ==
    /\ IdentifyReads(NonJson)
    /\ idStream' = [idStream EXCEPT
           !.seen = Append(@, NonJson), !.handler = "receiveFromStream threw"]
    /\ UNCHANGED <<msgStream, relays>>
    /\ UNCHANGED clientVars
    /\ UNCHANGED otherVars

\* the remote side closes the stream: the for-await loop ends
identifySourceEnds ==
    /\ idStream.handler = "reading"
    /\ idStream' = [idStream EXCEPT !.handler = "ended"]
    /\ UNCHANGED <<msgStream, relays>>
    /\ UNCHANGED clientVars
    /\ UNCHANGED otherVars

IdentifyNext ==
    \/ \E msg \in IdentifyInbound : handleIdentifyQuery(msg)
    \/ \E msg \in IdentifyInbound : handleIdentifyWriteFails(msg)
    \/ \E msg \in IdentifyInbound : handleIdentifyOther(msg)
    \/ handleIdentifyNonJson
    \/ identifySourceEnds

(***************************************************************************)
(* Node role: handleProtocol and handleMessage on one inbound message      *)
(* stream.  One relay is one handleMessage invocation:                     *)
(*   data     history: the chat request of the message packet              *)
(*   request  the request handed to chat.completions.create                *)
(*   pc       "create" (awaiting the backend call), "piping", "ended",     *)
(*            "failed" (the backend threw) or "aborted" (a write failed)   *)
(*   res      history: the chunks the backend has yielded, in order        *)
(***************************************************************************)
\* chat requests a remote client may send: with and without fields of its own
\* for model and stream
ChatRequests ==
    { [messages |-> "hello"],
      [messages |-> "hello", model |-> "gpt-4", stream |-> FALSE,
       temperature |-> "0.2"] }

MessageInbound ==
    {MimirPacket("message", undefined, d) : d \in ChatRequests}
        \cup {MimirPacket("command", undefined, [messages |-> "hello"]), NonJson}

\* mutant of llmRequest: { model: 'llama3.2:latest', stream: true, ...data }
llmRequestDataWins(data) ==
    [k \in DOMAIN data \cup {"model", "stream"} |->
        IF k \in DOMAIN data THEN data[k]
        ELSE IF k = "model" THEN Llama
        ELSE TRUE]

\* { ...data, model: 'llama3.2:latest', stream: true }
llmRequest(data) ==
    [k \in DOMAIN data \cup {"model", "stream"} |->
        IF k = "model" THEN Llama
        ELSE IF k = "stream" THEN TRUE
        ELSE data[k]]

\* the packet a chunk is wrapped in
completionPacket(data) == MimirPacket("completionPacket", undefined, data)

\* mutant of pipeChunk: the frame is written twice
pipeChunkTwice(sink, data) ==
    sendToStream(sendToStream(sink, completionPacket(data)), completionPacket(data))

\* one pass of a chunk through the pipe: wrap, JSON.stringify, lp.encode, sink
pipeChunk(sink, data) == sendToStream(sink, completionPacket(data))

Relays == 1..Len(relays)

\* the chunks the backend has yielded so far, over all relays
RECURSIVE Yielded(_)
Yielded(r) == IF r = 0 THEN 0 ELSE Len(relays[r].res) + Yielded(r - 1)

ProtocolReads ==
    /\ msgStream.handler = "reading"
    /\ msgStream.read < MaxMessages

\* handleProtocol reads a message packet and calls handleMessage without
\* awaiting it; handleMessage builds llmRequest and awaits the backend call
handleProtocolMessage(msg) ==
    /\ ProtocolReads
    /\ msg.event = "message"
    /\ msgStream' = [msgStream EXCEPT !.read = @ + 1]
    /\ relays' = Append(relays,
           [data |-> msg.data, request |-> llmRequest(msg.data),
            pc |-> "create", res |-> <<>>])
    /\ UNCHANGED idStream
    /\ UNCHANGED clientVars
    /\ UNCHANGED otherVars

\* a packet of another event is read and skipped
handleProtocolOther(msg) ==
    /\ ProtocolReads
    /\ msg.event # "message"
    /\ msg # NonJson
    /\ msgStream' = [msgStream EXCEPT !.read = @ + 1]
    /\ UNCHANGED <<idStream, relays>>
    /\ UNCHANGED clientVars
    /\ UNCHANGED otherVars

\* a frame does not decode: receiveFromStream throws and handleProtocol ends
handleProtocolNonJson ==
    /\ ProtocolReads
    /\ msgStream' = [msgStream EXCEPT
           !.read = @ + 1, !.handler = "receiveFromStream threw"]
    /\ UNCHANGED <<idStream, relays>>
    /\ UNCHANGED clientVars
    /\ UNCHANGED otherVars

\* the remote side closes its end: the for-await loop of handleProtocol ends
protocolSourceEnds ==
    /\ msgStream.handler = "reading"
    /\ msgStream' = [msgStream EXCEPT !.handler = "ended"]
    /\ UNCHANGED <<idStream, relays>>
    /\ UNCHANGED clientVars
    /\ UNCHANGED otherVars

\* chat.completions.create resolves: the pipe into stream.sink is started
createResolves(r) ==
    /\ relays[r].pc = "create"
    /\ relays' = [relays EXCEPT ![r].pc = "piping"]
    /\ UNCHANGED <<idStream, msgStream>>
    /\ UNCHANGED clientVars
    /\ UNCHANGED otherVars

\* chat.completions.create rejects: handleMessage throws, nothing is written
createRejects(r) ==
    /\ relays[r].pc = "create"
    /\ relays' = [relays EXCEPT ![r].pc = "failed"]
    /\ UNCHANGED <<idStream, msgStream>>
    /\ UNCHANGED clientVars
    /\ UNCHANGED otherVars

\* the sink pulls the next chunk from the backend through the pipe, where it
\* is wrapped and encoded, and writes it to the stream
relayChunk(r, chunk) ==
    /\ relays[r].pc = "piping"
    /\ Yielded(Len(relays)) < MaxChunks
    /\ relays' = [relays EXCEPT ![r].res = Append(@, chunk)]
    /\ msgStream' = [msgStream EXCEPT
           !.sink = pipeChunk(@, chunk),
           !.by = @ \o [i \in 1..(Len(pipeChunk(msgStream.sink, chunk))
                                    - Len(msgStream.sink)) |-> r]]
    /\ UNCHANGED idStream
    /\ UNCHANGED clientVars
    /\ UNCHANGED otherVars

\* the next chunk is pulled and writing it fails: the pipe is torn down
relayChunkWriteFails(r, chunk) ==
    /\ relays[r].pc = "piping"
    /\ Yielded(Len(relays)) < MaxChunks
    /\ relays' = [relays EXCEPT ![r].res = Append(@, chunk), ![r].pc = "aborted"]
    /\ UNCHANGED <<idStream, msgStream>>
    /\ UNCHANGED clientVars
    /\ UNCHANGED otherVars

\* the backend's sequence ends: the pipe completes
backendEnds(r) ==
    /\ relays[r].pc = "piping"
    /\ relays' = [relays EXCEPT ![r].pc = "ended"]
    /\ UNCHANGED <<idStream, msgStream>>
    /\ UNCHANGED clientVars
    /\ UNCHANGED otherVars

\* the backend's sequence throws: the pipe is torn down
backendThrows(r) ==
    /\ relays[r].pc = "piping"
    /\ relays' = [relays EXCEPT ![r].pc = "failed"]
    /\ UNCHANGED <<idStream, msgStream>>
    /\ UNCHANGED clientVars
    /\ UNCHANGED otherVars

RelayNext ==
    \/ \E msg \in MessageInbound : handleProtocolMessage(msg)
    \/ \E msg \in MessageInbound : handleProtocolOther(msg)
    \/ handleProtocolNonJson
    \/ protocolSourceEnds
    \/ \E r \in Relays : createResolves(r)
    \/ \E r \in Relays : createRejects(r)
    \/ \E r \in Relays : backendEnds(r)
    \/ \E r \in Relays : backendThrows(r)
    \/ \E r \in Relays : \E chunk \in Chunks : relayChunk(r, chunk)
    \/ \E r \in Relays : \E chunk \in Chunks : relayChunkWriteFails(r, chunk)

IdentifySpec == Init /\ [][IdentifyNext]_vars

RelaySpec == Init /\ [][RelayNext]_vars

(***************************************************************************)
(* Claims about the node role.                                             *)
(***************************************************************************)
IsQuery(p) == p.event = "query"

QueriesSeen == SelectSeq(idStream.seen, IsQuery)

IdentifyWritten == receiveFromStream(idStream.sink)

\* C8: the packets handleIdentify has written are, in order, one response per
\* query it has read: event 'response', the query's request id, and the list of
\* hosted models as data; only a query whose write failed has none.
C8_ResponseEchoesQuery ==
    /\ Len(IdentifyWritten) =
          IF idStream.handler = "sendToStream threw"
          THEN Len(QueriesSeen) - 1 ELSE Len(QueriesSeen)
    /\ \A i \in 1..Len(IdentifyWritten) :
          /\ IdentifyWritten[i].event = "response"
          /\ IdentifyWritten[i].request_id = QueriesSeen[i].request_id
          /\ IdentifyWritten[i].data = <<Llama>>

\* a query carrying a request id has been answered after a packet of another
\* event was skipped
C8_Witness ==
    /\ Len(idStream.seen) = 2
    /\ idStream.seen[1].event = "command"
    /\ idStream.seen[2] = MimirPacket("query", randomUUID(1), llmCidMap[Llama])
    /\ IdentifyWritten = <<MimirPacket("response", randomUUID(1), <<Llama>>)>>

\* C9: handleIdentify writes at most one response on an inbound identify
\* stream; a query read after the first one is not answered.
C9_OneResponsePerStream == Len(idStream.sink) <= 1

Wrapped(chunks) ==
    [i \in 1..Len(chunks) |-> MimirPacket("completionPacket", undefined, chunks[i])]

\* the frames of the message stream that relay r wrote, decoded
WrittenBy(r) ==
    LET idx == {i \in 1..Len(msgStream.sink) : msgStream.by[i] = r}
        RECURSIVE Pick(_)
        Pick(i) == IF i > Len(msgStream.sink) THEN <<>>
                   ELSE (IF i \in idx THEN <<msgStream.sink[i]>> ELSE <<>>)
                            \o Pick(i + 1)
    IN  receiveFromStream(Pick(1))

\* the chunks of relay r that were written: all it pulled, but for the one
\* whose write failed
Piped(r) ==
    IF relays[r].pc = "aborted"
    THEN SubSeq(relays[r].res, 1, Len(relays[r].res) - 1)
    ELSE relays[r].res

\* C10: the packets a relay has put on the stream are completionPacket(c1) ..
\* completionPacket(cn) for the chunks c1..cn the backend has yielded to it, in
\* the backend's order, one packet per chunk; only a chunk whose write failed
\* is not on the stream.  With one message packet on the stream these are all
\* the packets the stream carries.
C10_RelayPreservesChunks ==
    /\ Len(msgStream.by) = Len(msgStream.sink)
    /\ \A r \in Relays : WrittenBy(r) = Wrapped(Piped(r))
    /\ Len(relays) = 1 =>
          receiveFromStream(msgStream.sink) = Wrapped(Piped(1))

\* one relay has ended after the backend yielded two different chunks
C10_Witness ==
    /\ Len(relays) = 1
    /\ relays[1].pc = "ended"
    /\ relays[1].res = <<"a", "b">>
    /\ receiveFromStream(msgStream.sink) = Wrapped(<<"a", "b">>)

(***************************************************************************)
(* sendMessage and dialPeer.  One sendMessage invocation:                  *)
(*   request  the chat request passed in                                   *)
(*   dir      history: llmPeerMap when sendMessage was called              *)
(*   peerId   the peer of the record sendMessage chose, "none" before      *)
(*   pc       where the async function is suspended or how it ended        *)
(*   dials    history: the dialProtocol calls, peer and protocol id        *)
(*   stream   what dialPeer returned: "null" or "open"                     *)
(*   sink     the frames written on the stream                             *)
(*   result   how the promise settled: "pending", "undefined" (resolved    *)
(*            with no value), "stream", "TypeError" or "Error"             *)
(***************************************************************************)
MaxSends == 2         \* sendMessage calls

MaxRecords == 3       \* records of the directory a call finds

\* the directories discovery can have built when sendMessage is called: any
\* sequence of records of the catalog's one content address
Directories ==
    UNION {[1..n -> {LLMPeer(p, llmCidMap[Llama]) : p \in Peers}] : n \in 0..MaxRecords}

\* peer => peer.llmCID.toString() === llmCidMap["llama3.2:latest"]
IsLlama(peer) == peer.llmCID = llmCidMap[Llama]

\* Array.from(this.llmPeerMap).filter(...)
Filter(set) == SelectSeq(set, IsLlama)

\* mutant of llmPeerOf: the last match is taken
llmPeerOfLast(matches) == matches[Len(matches)]

\* ...filter(...)[0]
llmPeerOf(matches) == matches[1]

NewSend(request) ==
    [request |-> request, dir |-> llmPeerMap, peerId |-> "none",
     pc |-> "sendMessage", dials |-> <<>>, stream |-> "null", sink |-> <<>>,
     result |-> "pending"]

SendInit ==
    /\ llmPeerMap \in Directories
    /\ requests = <<>>
    /\ att = <<>>
    /\ removals = [r \in AllIds |-> <<>>]
    /\ idStream = [seen |-> <<>>, sink |-> <<>>, handler |-> "reading"]
    /\ msgStream = [read |-> 0, sink |-> <<>>, by |-> <<>>, handler |-> "reading"]
    /\ relays = <<>>
    /\ send = <<>>
    /\ inst = MimirP2PClient([mode |-> "client"])
    /\ wire = NoTraffic

\* sendMessage up to its first await: an empty directory logs and returns;
\* otherwise the first matching record is taken and dialPeer awaits the peer
\* store.  With records but no match llmPeer is undefined and reading its
\* peerId throws.
sendMessage(request) ==
    /\ Len(send) < MaxSends
    /\ send' = Append(send,
           IF Len(llmPeerMap) = 0
           THEN [NewSend(request) EXCEPT !.pc = "returned", !.result = "undefined"]
           ELSE IF Filter(llmPeerMap) = <<>>
           THEN [NewSend(request) EXCEPT !.pc = "rejected", !.result = "TypeError"]
           ELSE [NewSend(request) EXCEPT
                    !.pc = "peerStore.get",
                    !.peerId = llmPeerOf(Filter(llmPeerMap)).peerId])
    /\ UNCHANGED <<inst, wire>>
    /\ UNCHANGED clientVars
    /\ UNCHANGED nodeVars

\* dialPeer: peerStore.get resolves and dialProtocol is called and awaited
dialPeerStoreResolves(c) ==
    /\ send[c].pc = "peerStore.get"
    /\ send' = [send EXCEPT
           ![c].pc = "dialProtocol",
           ![c].dials = Append(@, [peerId |-> send[c].peerId,
                                   protocol |-> configProtocol(inst.config)])]
    /\ UNCHANGED <<inst, wire>>
    /\ UNCHANGED clientVars
    /\ UNCHANGED nodeVars

\* dialPeer: peerStore.get rejects outside the try block; sendMessage rejects
dialPeerStoreRejects(c) ==
    /\ send[c].pc = "peerStore.get"
    /\ send' = [send EXCEPT ![c].pc = "rejected", ![c].result = "Error"]
    /\ UNCHANGED <<inst, wire>>
    /\ UNCHANGED clientVars
    /\ UNCHANGED nodeVars

\* dialPeer: dialProtocol resolves, dialPeer returns the stream and
\* sendToStream is awaited
dialPeerResolves(c) ==
    /\ send[c].pc = "dialProtocol"
    /\ send' = [send EXCEPT ![c].pc = "sendToStream", ![c].stream = "open"]
    /\ UNCHANGED <<inst, wire>>
    /\ UNCHANGED clientVars
    /\ UNCHANGED nodeVars

\* mutant of dialPeerRejects: the null stream is returned to the caller
dialPeerRejectsQuietly(c) ==
    /\ send[c].pc = "dialProtocol"
    /\ send' = [send EXCEPT ![c].pc = "returned", ![c].result = "undefined"]
    /\ UNCHANGED <<inst, wire>>
    /\ UNCHANGED clientVars
    /\ UNCHANGED nodeVars

\* dialPeer: dialProtocol rejects, the catch block logs and dialPeer returns
\* null; sendToStream reads stream.status of null and throws
dialPeerRejects(c) ==
    /\ send[c].pc = "dialProtocol"
    /\ send' = [send EXCEPT ![c].pc = "rejected", ![c].result = "TypeError"]
    /\ UNCHANGED <<inst, wire>>
    /\ UNCHANGED clientVars
    /\ UNCHANGED nodeVars

\* the message packet is written and sendMessage returns the stream
sendMessageResolves(c) ==
    /\ send[c].pc = "sendToStream"
    /\ send' = [send EXCEPT
           ![c].sink = sendToStream(@, MimirPacket("message", undefined,
                                                   send[c].request)),
           ![c].pc = "returned", ![c].result = "stream"]
    /\ UNCHANGED <<inst, wire>>
    /\ UNCHANGED clientVars
    /\ UNCHANGED nodeVars

\* writing the message packet fails: sendMessage rejects
sendMessageRejects(c) ==
    /\ send[c].pc = "sendToStream"
    /\ send' = [send EXCEPT ![c].pc = "rejected", ![c].result = "Error"]
    /\ UNCHANGED <<inst, wire>>
    /\ UNCHANGED clientVars
    /\ UNCHANGED nodeVars

SendNext ==
    \/ \E request \in ChatRequests : sendMessage(request)
    \/ \E c \in 1..Len(send) : dialPeerStoreResolves(c)
    \/ \E c \in 1..Len(send) : dialPeerStoreRejects(c)
    \/ \E c \in 1..Len(send) : dialPeerResolves(c)
    \/ \E c \in 1..Len(send) : dialPeerRejects(c)
    \/ \E c \in 1..Len(send) : sendMessageResolves(c)
    \/ \E c \in 1..Len(send) : sendMessageRejects(c)
    \/ \E p \in Peers : onDisconnect(p)

SendSpec == SendInit /\ [][SendNext]_vars

(***************************************************************************)
(* Claims about sendMessage.                                               *)
(***************************************************************************)
Sends == 1..Len(send)

\* C11: a sendMessage call that finds no record for the requested model
\* fails with NoPeerAvailable, that is, it does not return normally, and it
\* issues no dial.
C11_NoPeerFailsFast ==
    \A c \in Sends :
        Filter(send[c].dir) = <<>> =>
            /\ send[c].result = "NoPeerAvailable"
            /\ send[c].dials = <<>>

\* the part of C11 the code keeps: a call that finds no record never dials
NoRecordNoDial ==
    \A c \in Sends : Filter(send[c].dir) = <<>> => send[c].dials = <<>>

\* the index of the earliest-inserted record of dir that holds the model
Earliest(dir) ==
    CHOOSE i \in 1..Len(dir) :
        /\ IsLlama(dir[i])
        /\ \A j \in 1..(i - 1) : ~IsLlama(dir[j])

\* C12: a sendMessage call that finds records of the requested model chooses
\* the peer of the record inserted earliest among those present at the call,
\* dials no other peer and dials at most once; when the dial and the write
\* succeed the stream carries exactly one packet, the message packet with the
\* chat request, and otherwise none.
C12_FirstMatchOneMessage ==
    \A c \in Sends :
        Filter(send[c].dir) # <<>> =>
            /\ send[c].peerId = send[c].dir[Earliest(send[c].dir)].peerId
            /\ Len(send[c].dials) <= 1
            /\ \A d \in 1..Len(send[c].dials) :
                   send[c].dials[d].peerId = send[c].peerId
            /\ send[c].pc \in {"dialProtocol", "sendToStream", "returned"}
                   => Len(send[c].dials) = 1
            /\ receiveFromStream(send[c].sink) =
                   IF send[c].result = "stream"
                   THEN <<MimirPacket("message", undefined, send[c].request)>>
                   ELSE <<>>

\* records of two peers, peerB's inserted first and peerA's last: the call
\* dialed peerB and wrote the message packet
C12_Witness ==
    \E c \in Sends :
        /\ Len(send[c].dir) = 3
        /\ send[c].dir[1].peerId = "peerB"
        /\ send[c].dir[3].peerId = "peerA"
        /\ send[c].result = "stream"
        /\ send[c].dials[1].peerId = "peerB"
        /\ Len(send[c].sink) = 1

(***************************************************************************)
(* start() and the life of one instance in either role: start's steps,     *)
(* the substrate's discovery notifications, the identify handshake they    *)
(* start, and sendMessage.                                                 *)
(***************************************************************************)
MaxAnnounced == 1     \* discovery notifications the substrate raises

Modes == {"client", "node"}

CustomProtocol == <<"custom", "2.0.0">>

\* MimirConfig: the role, and the optional protocol
Configs ==
    {[mode |-> m] : m \in Modes}
        \cup {[mode |-> m, protocol |-> p] :
                  m \in Modes, p \in {DefaultProtocol, CustomProtocol}}

\* mutant of Listeners: peer:discovery is subscribed in both roles
ListenersBothRoles(mode) ==
    {"peer:discovery", "peer:connect", "peer:disconnect"}

\* the addEventListener calls of start()
Listeners(mode) ==
    (IF mode = "client" THEN {"peer:discovery"} ELSE {})
        \cup {"peer:connect", "peer:disconnect"}

\* the protocol ids of the libp2p.handle calls of start()
Handlers(config) ==
    IF config.mode = "node"
    THEN {configProtocol(config), Concat(configProtocol(config), "identify")}
    ELSE {}

RoleInit ==
    /\ llmPeerMap = <<>>
    /\ requests = <<>>
    /\ att = <<>>
    /\ removals = [r \in AllIds |-> <<>>]
    /\ idStream = [seen |-> <<>>, sink |-> <<>>, handler |-> "reading"]
    /\ msgStream = [read |-> 0, sink |-> <<>>, by |-> <<>>, handler |-> "reading"]
    /\ relays = <<>>
    /\ send = <<>>
    /\ \E config \in Configs : inst = MimirP2PClient(config)
    /\ wire = NoTraffic

\* start() up to its first await: the listeners and handlers are registered;
\* a node awaits models.list inside advertiseLLM, a client awaits libp2p.start
start ==
    /\ inst.pc = "constructed"
    /\ inst' = [inst EXCEPT
           !.listeners = Listeners(inst.config.mode),
           !.handlers = Handlers(inst.config),
           !.pc = IF inst.config.mode = "node" THEN "models.list"
                  ELSE "libp2p.start"]
    /\ UNCHANGED <<send, wire>>
    /\ UNCHANGED clientVars
    /\ UNCHANGED nodeVars

\* advertiseLLM: models.list resolves, provide is called and not awaited,
\* advertiseLLM returns and start() awaits libp2p.start
modelsListResolves ==
    /\ inst.pc = "models.list"
    /\ inst' = [inst EXCEPT !.provide = "pending", !.pc = "libp2p.start"]
    /\ UNCHANGED <<send, wire>>
    /\ UNCHANGED clientVars
    /\ UNCHANGED nodeVars

\* advertiseLLM: models.list rejects; advertiseLLM and start() reject
modelsListRejects ==
    /\ inst.pc = "models.list"
    /\ inst' = [inst EXCEPT !.pc = "rejected:models.list"]
    /\ UNCHANGED <<send, wire>>
    /\ UNCHANGED clientVars
    /\ UNCHANGED nodeVars

libp2pStartResolves ==
    /\ inst.pc = "libp2p.start"
    /\ ~inst.exited
    /\ inst' = [inst EXCEPT !.pc = "started"]
    /\ UNCHANGED <<send, wire>>
    /\ UNCHANGED clientVars
    /\ UNCHANGED nodeVars

libp2pStartRejects ==
    /\ inst.pc = "libp2p.start"
    /\ ~inst.exited
    /\ inst' = [inst EXCEPT !.pc = "rejected:libp2p.start"]
    /\ UNCHANGED <<send, wire>>
    /\ UNCHANGED clientVars
    /\ UNCHANGED nodeVars

\* the promise of provide settles
provideResolves ==
    /\ inst.provide = "pending"
    /\ inst' = [inst EXCEPT !.provide = "resolved"]
    /\ UNCHANGED <<send, wire>>
    /\ UNCHANGED clientVars
    /\ UNCHANGED nodeVars

provideRejects ==
    /\ inst.provide = "pending"
    /\ inst' = [inst EXCEPT !.provide = "rejected"]
    /\ UNCHANGED <<send, wire>>
    /\ UNCHANGED clientVars
    /\ UNCHANGED nodeVars

\* the rejection of provide has no handler: the runtime may end the process
\* (the default of Node.js) or go on (with a handler or flag set elsewhere)
unhandledRejection ==
    /\ inst.provide = "rejected"
    /\ ~inst.exited
    /\ inst' = [inst EXCEPT !.exited = TRUE]
    /\ UNCHANGED <<send, wire>>
    /\ UNCHANGED clientVars
    /\ UNCHANGED nodeVars

\* the started substrate raises peer:discovery and the instance listens
peerDiscovery(peerId) ==
    /\ inst.pc = "started"
    /\ "peer:discovery" \in inst.listeners
    /\ Len(att) < MaxAnnounced
    /\ onDiscovery(peerId)

\* the started substrate raises peer:discovery and nobody listens
peerDiscoveryUnheard(peerId) ==
    /\ inst.pc = "started"
    /\ "peer:discovery" \notin inst.listeners
    /\ Cardinality(inst.announced) < MaxAnnounced
    /\ peerId \notin inst.announced
    /\ inst' = [inst EXCEPT !.announced = @ \cup {peerId}]
    /\ UNCHANGED <<send, wire>>
    /\ UNCHANGED clientVars
    /\ UNCHANGED nodeVars

RoleNext ==
    \/ start
    \/ modelsListResolves
    \/ modelsListRejects
    \/ libp2pStartResolves
    \/ libp2pStartRejects
    \/ provideResolves
    \/ provideRejects
    \/ unhandledRejection
    \/ \E p \in Peers : peerDiscovery(p)
    \/ \E p \in Peers : peerDiscoveryUnheard(p)
    \/ \E p \in Peers : onDisconnect(p)
    \/ \E a \in 1..Len(att) : peerStoreGetResolves(a)
    \/ \E a \in 1..Len(att) : peerStoreGetRejects(a)
    \/ \E a \in 1..Len(att) : dialProtocolResolves(a)
    \/ \E a \in 1..Len(att) : dialProtocolRejects(a)
    \/ \E a \in 1..Len(att) : sendQueryResolves(a)
    \/ \E a \in 1..Len(att) : sendQueryRejects(a)
    \/ \E a \in 1..Len(att) : timerFires(a)
    \/ \E a \in 1..Len(att) : receiveNonJson(a)
    \/ \E a \in 1..Len(att) : sourceEnds(a)
    \/ \E a \in 1..Len(att) : \E msg \in InboundPackets : receiveResponse(a, msg)
    \/ \E request \in ChatRequests : sendMessage(request)
    \/ \E c \in 1..Len(send) : dialPeerStoreResolves(c)
    \/ \E c \in 1..Len(send) : dialPeerStoreRejects(c)
    \/ \E c \in 1..Len(send) : dialPeerResolves(c)
    \/ \E c \in 1..Len(send) : dialPeerRejects(c)
    \/ \E c \in 1..Len(send) : sendMessageResolves(c)
    \/ \E c \in 1..Len(send) : sendMessageRejects(c)

\* every await settles, every notification is delivered and every call the
\* application can make is made
RoleSpec == RoleInit /\ [][RoleNext]_vars /\ WF_vars(RoleNext)

(***************************************************************************)
(* Claims about start() and the roles.                                     *)
(***************************************************************************)
IsNode == inst.config.mode = "node"

IsClient == inst.config.mode = "client"

\* what start() subscribes and registers, by role
Wired ==
    /\ {"peer:connect", "peer:disconnect"} \subseteq inst.listeners
    /\ "peer:discovery" \in inst.listeners <=> IsClient
    /\ inst.handlers # {} <=> IsNode
    /\ IsNode => inst.handlers = Handlers(inst.config)

NodeDials ==
    /\ IsNode
    /\ \E c \in Sends : send[c].dir # <<>> /\ send[c].dials # <<>>

NodeNeverDials ==
    IsNode => /\ llmPeerMap = <<>>
              /\ att = <<>>
              /\ \A c \in Sends : send[c].dials = <<>>

\* every protocol id the instance has dialed and registered
DialedIdentify ==
    UNION {{att[a].dials[d] : d \in DOMAIN att[a].dials} : a \in Attempts}

DialedMessage ==
    UNION {{send[c].dials[d].protocol : d \in DOMAIN send[c].dials} : c \in Sends}

\* C17: with no protocol in the configuration the message handler is
\* registered and dialed under '/mimirllm/1.0.0' and the identify handler under
\* '/mimirllm/1.0.0/identify'; in every configuration what a client dials is
\* what a node of that configuration registers.
C17_DefaultProtocol ==
    /\ "protocol" \notin DOMAIN inst.config =>
          /\ inst.handlers \subseteq {DefaultProtocol, Append(DefaultProtocol, "identify")}
          /\ DialedMessage \subseteq {DefaultProtocol}
          /\ DialedIdentify \subseteq {Append(DefaultProtocol, "identify")}
    /\ DialedMessage \cup DialedIdentify
           \subseteq Handlers([inst.config EXCEPT !.mode = "node"])

\* the part of C17 the code keeps: dialed and registered ids agree
DialedIsRegistered ==
    DialedMessage \cup DialedIdentify
        \subseteq Handlers([inst.config EXCEPT !.mode = "node"])

\* C19: in node role, once provide has been called start() has gone on to
\* start the substrate whatever becomes of provide, and nothing provide does
\* keeps start() from completing.
C19_FireAndForget ==
    inst.provide # "none" =>
        /\ inst.pc \in {"libp2p.start", "started", "rejected:libp2p.start"}
        /\ ~(inst.exited /\ inst.pc = "libp2p.start")

\* the part of C19 the code keeps: start() never waits for provide
StartDoesNotAwaitProvide ==
    inst.provide # "none" =>
        inst.pc \in {"libp2p.start", "started", "rejected:libp2p.start"}

(***************************************************************************)
(* Claims about the request the relay passes to the backend.               *)
(***************************************************************************)
\* C18: the request handleMessage passes to the backend names the locally
\* hosted model and has streaming on, whatever model and stream fields the
\* incoming chat request carried; it has every other field of the incoming
\* request, unchanged, and no further field.
C18_BackendRequest ==
    \A r \in Relays :
        /\ relays[r].request.model = Llama
        /\ relays[r].request.stream = TRUE
        /\ DOMAIN relays[r].request = DOMAIN relays[r].data \cup {"model", "stream"}
        /\ \A k \in DOMAIN relays[r].data \ {"model", "stream"} :
               relays[r].request[k] = relays[r].data[k]

\* a request that asked for another model without streaming was passed to
\* the backend, which answered
C18_Witness ==
    \E r \in Relays :
        /\ DOMAIN relays[r].data = {"messages", "model", "stream", "temperature"}
        /\ relays[r].data.model = "gpt-4"
        /\ relays[r].data.stream = FALSE
        /\ relays[r].request.temperature = "0.2"
        /\ relays[r].pc = "piping"

(***************************************************************************)
(* The codec on bytes: sendToStream is JSON.stringify, uint8ArrayFromString *)
(* and lp.encode; receiveFromStream is lp.decode, uint8ArrayToString and   *)
(* JSON.parse.  A string is the sequence of its characters, a Uint8Array   *)
(* the sequence of its bytes.                                              *)
(***************************************************************************)
MaxPackets == 2       \* packets written on one stream

MaxChunkLen == 4      \* bytes of a chunk that is not the rest of the stream

LongLen == 130        \* characters of the long string: a two-byte length prefix

\* the printable ASCII characters, from code 32 to code 126; the grave accent
\* (code 96), which no string of the model has, is spelled out
Printable ==
    <<" ", "!", "\"", "#", "$", "%", "&", "'", "(", ")", "*", "+",
      ",", "-", ".", "/", "0", "1", "2", "3", "4", "5", "6", "7",
      "8", "9", ":", ";", "<", "=", ">", "?", "@", "A", "B", "C",
      "D", "E", "F", "G", "H", "I", "J", "K", "L", "M", "N", "O",
      "P", "Q", "R", "S", "T", "U", "V", "W", "X", "Y", "Z", "[",
      "\\", "]", "^", "_", "grave", "a", "b", "c", "d", "e", "f", "g",
      "h", "i", "j", "k", "l", "m", "n", "o", "p", "q", "r", "s",
      "t", "u", "v", "w", "x", "y", "z", "{", "|", "}", "~">>

\* JSON values: null, a string, an array of strings, an object of strings
JsonNull == [kind |-> "null", keys |-> <<>>, items |-> <<>>]

JsonString(s) == [kind |-> "string", keys |-> <<>>, items |-> <<s>>]

JsonArray(strings) == [kind |-> "array", keys |-> <<>>, items |-> strings]

JsonObject(keys, strings) == [kind |-> "object", keys |-> keys, items |-> strings]

\* a string literal of the text; the model's strings need no escapes
Quote(s) == <<"\"">> \o s \o <<"\"">>

RECURSIVE Join(_)
Join(strings) ==
    IF strings = <<>> THEN <<>>
    ELSE Quote(Head(strings))
             \o (IF Tail(strings) = <<>> THEN <<>> ELSE <<",">> \o Join(Tail(strings)))

RECURSIVE JoinPairs(_, _)
JoinPairs(keys, strings) ==
    IF keys = <<>> THEN <<>>
    ELSE Quote(Head(keys)) \o <<":">> \o Quote(Head(strings))
             \o (IF Tail(keys) = <<>> THEN <<>>
                 ELSE <<",">> \o JoinPairs(Tail(keys), Tail(strings)))

stringifyValue(v) ==
    CASE v.kind = "string" -> Quote(v.items[1])
      [] v.kind = "null" -> <<"n", "u", "l", "l">>
      [] v.kind = "array" -> <<"[">> \o Join(v.items) \o <<"]">>
      [] v.kind = "object" -> <<"{">> \o JoinPairs(v.keys, v.items) \o <<"}">>

\* JSON.stringify of a packet: the properties in the order the code writes
\* them, a property whose value is undefined left out
stringifyPacket(p) ==
    <<"{">> \o Quote(<<"e", "v", "e", "n", "t">>) \o <<":">> \o Quote(p.event)
        \o (IF p.request_id = undefined THEN <<>>
            ELSE <<",">> \o Quote(<<"r", "e", "q", "u", "e", "s", "t", "_", "i", "d">>) \o <<":">> \o Quote(p.request_id))
        \o <<",">> \o Quote(<<"d", "a", "t", "a">>) \o <<":">> \o stringifyValue(p.data)
        \o <<"}">>

\* the code of a printable ASCII character
charCode ==
    [ch \in {Printable[i] : i \in DOMAIN Printable} |->
        31 + (CHOOSE i \in DOMAIN Printable : Printable[i] = ch)]

\* the UTF-8 bytes of one character: one byte for ASCII, two for e-acute
utf8(ch) == IF ch = "é" THEN <<195, 169>> ELSE <<charCode[ch]>>

\* uint8ArrayFromString: the bytes of the characters, in order; the ASCII
\* characters before the first other one are converted in one go
RECURSIVE uint8ArrayFromString(_)
uint8ArrayFromString(s) ==
    LET other == {i \in DOMAIN s : s[i] = "é"}
        n == IF other = {} THEN Len(s) + 1
             ELSE CHOOSE i \in other : \A j \in other : i <= j
        ascii == [i \in 1..(n - 1) |-> charCode[s[i]]]
    IN  IF n > Len(s) THEN ascii
        ELSE ascii \o utf8(s[n]) \o uint8ArrayFromString(SubSeq(s, n + 1, Len(s)))

\* mutant of unsignedVarint: the length is written in one byte
unsignedVarintOneByte(n) == <<n % 128>>

\* the unsigned varint of lp.encode: seven bits a byte, low group first, the
\* high bit set on every byte but the last
RECURSIVE unsignedVarint(_)
unsignedVarint(n) ==
    IF n < 128 THEN <<n>>
    ELSE <<128 + (n % 128)>> \o unsignedVarint(n \div 128)

\* lp.encode of one Uint8Array
lpEncodeBytes(bytes) == unsignedVarint(Len(bytes)) \o bytes

\* the bytes sendToStream hands to stream.sink for one packet
encodePacket(p) == lpEncodeBytes(uint8ArrayFromString(stringifyPacket(p)))

\* reading a varint at index i of buf: ok is FALSE while bytes are missing
RECURSIVE readVarint(_, _, _, _)
readVarint(buf, i, scale, sum) ==
    IF i > Len(buf) THEN [ok |-> FALSE, value |-> 0, next |-> i]
    ELSE IF buf[i] < 128
         THEN [ok |-> TRUE, value |-> sum + scale * buf[i], next |-> i + 1]
         ELSE readVarint(buf, i + 1, scale * 128, sum + scale * (buf[i] - 128))

\* mutant of nextFrame: a frame is yielded as soon as its length is known,
\* with the bytes that have arrived
nextFrameNoWait(buf) ==
    LET len == readVarint(buf, 1, 1, 0)
        end == IF Len(buf) < len.next - 1 + len.value THEN Len(buf)
               ELSE len.next - 1 + len.value
    IN  IF ~len.ok THEN [ok |-> FALSE, frame |-> <<>>, rest |-> buf]
        ELSE [ok |-> TRUE, frame |-> SubSeq(buf, len.next, end),
              rest |-> SubSeq(buf, end + 1, Len(buf))]

\* lp.decode on the bytes received and not yet consumed: the first frame, if
\* it is complete, and the bytes after it
nextFrame(buf) ==
    LET len == readVarint(buf, 1, 1, 0)
    IN  IF ~len.ok \/ Len(buf) < len.next - 1 + len.value
        THEN [ok |-> FALSE, frame |-> <<>>, rest |-> buf]
        ELSE [ok |-> TRUE,
              frame |-> SubSeq(buf, len.next, len.next - 1 + len.value),
              rest |-> SubSeq(buf, len.next + len.value, Len(buf))]

\* lp.decode to the end of the bytes: the complete frames and the bytes left
RECURSIVE lpDecodeBytes(_)
lpDecodeBytes(buf) ==
    LET f == nextFrame(buf)
        more == lpDecodeBytes(f.rest)
    IN  IF ~f.ok THEN [frames |-> <<>>, rest |-> buf]
        ELSE [frames |-> <<f.frame>> \o more.frames, rest |-> more.rest]

\* uint8ArrayToString: UTF-8 decoding; a byte sequence that is not UTF-8
\* decodes to the replacement character
RECURSIVE uint8ArrayToString(_)
uint8ArrayToString(bytes) ==
    LET other == {i \in DOMAIN bytes : bytes[i] \notin 32..126}
        n == IF other = {} THEN Len(bytes) + 1
             ELSE CHOOSE i \in other : \A j \in other : i <= j
        ascii == [i \in 1..(n - 1) |-> Printable[bytes[i] - 31]]
    IN  IF n > Len(bytes) THEN ascii
        ELSE IF bytes[n] = 195 /\ Len(bytes) > n /\ bytes[n + 1] = 169
             THEN ascii \o <<"é">>
                      \o uint8ArrayToString(SubSeq(bytes, n + 2, Len(bytes)))
             ELSE ascii \o <<"\\uFFFD">>
                      \o uint8ArrayToString(SubSeq(bytes, n + 1, Len(bytes)))

\* JSON.parse, on the grammar stringifyPacket writes
At(t, i) == IF i \in DOMAIN t THEN t[i] ELSE ""

\* the first index from i on where t has ch, 0 if none
Find(t, i, ch) ==
    LET found == {j \in i..Len(t) : t[j] = ch}
    IN  IF found = {} THEN 0 ELSE CHOOSE j \in found : \A k \in found : j <= k

SyntaxError == [ok |-> FALSE, value |-> JsonNull, pos |-> 0]

parseString(t, i) ==
    IF At(t, i) # "\"" THEN SyntaxError
    ELSE LET j == Find(t, i + 1, "\"")
         IN  IF j = 0 THEN SyntaxError
             ELSE [ok |-> TRUE, value |-> JsonString(SubSeq(t, i + 1, j - 1)),
                   pos |-> j + 1]

RECURSIVE parseItems(_, _, _)
parseItems(t, i, acc) ==
    LET s == parseString(t, i)
    IN  IF ~s.ok THEN SyntaxError
        ELSE IF At(t, s.pos) = ","
             THEN parseItems(t, s.pos + 1, Append(acc, s.value.items[1]))
             ELSE IF At(t, s.pos) = "]"
                  THEN [ok |-> TRUE,
                        value |-> JsonArray(Append(acc, s.value.items[1])),
                        pos |-> s.pos + 1]
                  ELSE SyntaxError

RECURSIVE parsePairs(_, _, _, _)
parsePairs(t, i, keys, acc) ==
    LET k == parseString(t, i)
        v == parseString(t, k.pos + 1)
    IN  IF ~k.ok \/ At(t, k.pos) # ":" \/ ~v.ok THEN SyntaxError
        ELSE IF At(t, v.pos) = ","
             THEN parsePairs(t, v.pos + 1, Append(keys, k.value.items[1]),
                             Append(acc, v.value.items[1]))
             ELSE IF At(t, v.pos) = "}"
                  THEN [ok |-> TRUE,
                        value |-> JsonObject(Append(keys, k.value.items[1]),
                                             Append(acc, v.value.items[1])),
                        pos |-> v.pos + 1]
                  ELSE SyntaxError

parseValue(t, i) ==
    CASE At(t, i) = "\"" -> parseString(t, i)
      [] At(t, i) = "n" ->
            IF SubSeq(t, i, i + 3) = <<"n", "u", "l", "l">>
            THEN [ok |-> TRUE, value |-> JsonNull, pos |-> i + 4]
            ELSE SyntaxError
      [] At(t, i) = "[" ->
            IF At(t, i + 1) = "]"
            THEN [ok |-> TRUE, value |-> JsonArray(<<>>), pos |-> i + 2]
            ELSE parseItems(t, i + 1, <<>>)
      [] At(t, i) = "{" ->
            IF At(t, i + 1) = "}"
            THEN [ok |-> TRUE, value |-> JsonObject(<<>>, <<>>), pos |-> i + 2]
            ELSE parsePairs(t, i + 1, <<>>, <<>>)
      [] OTHER -> SyntaxError

NoMembers == [ok |-> FALSE, keys |-> <<>>, values |-> <<>>, pos |-> 0]

\* the members of the top-level object: keys and values
RECURSIVE parseMembers(_, _, _, _)
parseMembers(t, i, keys, values) ==
    LET k == parseString(t, i)
        v == parseValue(t, k.pos + 1)
    IN  IF ~k.ok \/ At(t, k.pos) # ":" \/ ~v.ok THEN NoMembers
        ELSE IF At(t, v.pos) = ","
             THEN parseMembers(t, v.pos + 1, Append(keys, k.value.items[1]),
                               Append(values, v.value))
             ELSE IF At(t, v.pos) = "}"
                  THEN [ok |-> TRUE, keys |-> Append(keys, k.value.items[1]),
                        values |-> Append(values, v.value), pos |-> v.pos + 1]
                  ELSE NoMembers

\* the value of a member, by key
Member(m, key) == m.values[CHOOSE i \in DOMAIN m.keys : m.keys[i] = key]

HasMember(m, key) == \E i \in DOMAIN m.keys : m.keys[i] = key

\* JSON.parse of a frame's text, as a packet; ok is FALSE where JSON.parse
\* throws.  A text without a string event or without data is none the codec
\* writes and is treated like a malformed one.
parsePacket(t) ==
    LET m == IF At(t, 1) = "{" THEN parseMembers(t, 2, <<>>, <<>>) ELSE NoMembers
    IN  IF /\ m.ok
           /\ m.pos = Len(t) + 1
           /\ HasMember(m, <<"e", "v", "e", "n", "t">>)
           /\ HasMember(m, <<"d", "a", "t", "a">>)
           /\ Member(m, <<"e", "v", "e", "n", "t">>).kind = "string"
           /\ HasMember(m, <<"r", "e", "q", "u", "e", "s", "t", "_", "i", "d">>) =>
                  Member(m, <<"r", "e", "q", "u", "e", "s", "t", "_", "i", "d">>).kind = "string"
        THEN [ok |-> TRUE,
              packet |-> MimirPacket(
                  Member(m, <<"e", "v", "e", "n", "t">>).items[1],
                  IF HasMember(m, <<"r", "e", "q", "u", "e", "s", "t", "_", "i", "d">>)
                  THEN Member(m, <<"r", "e", "q", "u", "e", "s", "t", "_", "i", "d">>).items[1] ELSE undefined,
                  Member(m, <<"d", "a", "t", "a">>))]
        ELSE [ok |-> FALSE, packet |-> MimirPacket(<<>>, undefined, JsonNull)]

\* receiveFromStream on the frames lp.decode yields: the packets up to the
\* first frame JSON.parse rejects, where the generator throws
RECURSIVE parseFrames(_)
parseFrames(frames) ==
    IF frames = <<>> THEN [packets |-> <<>>, threw |-> FALSE]
    ELSE LET p == parsePacket(uint8ArrayToString(Head(frames)))
             more == parseFrames(Tail(frames))
         IN  IF ~p.ok THEN [packets |-> <<>>, threw |-> TRUE]
             ELSE [packets |-> <<p.packet>> \o more.packets, threw |-> more.threw]

\* receiveFromStream on all the bytes of a stream
decodeBytes(bytes) == parseFrames(lpDecodeBytes(bytes).frames)

\* the long string
LongString == [i \in 1..LongLen |-> "a"]

\* the packets written in the model: every event, with and without a request
\* id, every kind of payload, ASCII and not, short and long
CodecPackets ==
    { MimirPacket(<<"q", "u", "e", "r", "y">>, <<"u", "-", "1">>, JsonString(<<"Q", "m", "N", "i", "z">>)),
      MimirPacket(<<"r", "e", "s", "p", "o", "n", "s", "e">>, <<"u", "-", "1">>, JsonArray(<<<<"l", "l", "a", "m", "a", "3", ".", "2", ":", "l", "a", "t", "e", "s", "t">>>>)),
      MimirPacket(<<"r", "e", "s", "p", "o", "n", "s", "e">>, <<"u", "-", "2">>, JsonArray(<<<<"a">>, <<"é">>>>)),
      MimirPacket(<<"r", "e", "s", "p", "o", "n", "s", "e">>, undefined, JsonArray(<<>>)),
      MimirPacket(<<"m", "e", "s", "s", "a", "g", "e">>, undefined, JsonObject(<<<<"m", "e", "s", "s", "a", "g", "e", "s">>>>, <<<<"h", "e", "l", "l", "o">>>>)),
      MimirPacket(<<"m", "e", "s", "s", "a", "g", "e">>, <<"u", "-", "2">>, JsonString(LongString)),
      MimirPacket(<<"c", "o", "m", "p", "l", "e", "t", "i", "o", "n", "P", "a", "c", "k", "e", "t">>, undefined, JsonString(<<"h", "é">>)),
      MimirPacket(<<"c", "o", "m", "p", "l", "e", "t", "i", "o", "n", "P", "a", "c", "k", "e", "t">>, undefined, JsonNull) }

(***************************************************************************)
(* One stream from sendToStream to receiveFromStream.                      *)
(*   sent      history: the packets sendToStream was called with           *)
(*   bytes     the bytes written and not yet delivered                     *)
(*   buffer    the bytes lp.decode holds and has not yet yielded a frame   *)
(*             of                                                          *)
(*   received  the packets receiveFromStream has yielded                   *)
(*   threw     receiveFromStream threw and reads no more                   *)
(***************************************************************************)
CodecInit ==
    /\ llmPeerMap = <<>>
    /\ requests = <<>>
    /\ att = <<>>
    /\ removals = [r \in AllIds |-> <<>>]
    /\ idStream = [seen |-> <<>>, sink |-> <<>>, handler |-> "reading"]
    /\ msgStream = [read |-> 0, sink |-> <<>>, by |-> <<>>, handler |-> "reading"]
    /\ relays = <<>>
    /\ send = <<>>
    /\ inst = MimirP2PClient([mode |-> "client"])
    /\ wire = NoTraffic

\* sendToStream(stream, p): the text, its bytes, and the frame on the stream
writePacket(p) ==
    /\ Len(wire.sent) < MaxPackets
    /\ \E text \in {stringifyPacket(p)} :
       \E bytes \in {uint8ArrayFromString(text)} :
           wire' = [wire EXCEPT !.sent = Append(@, p),
                                !.bytes = @ \o lpEncodeBytes(bytes)]
    /\ UNCHANGED <<send, inst>>
    /\ UNCHANGED clientVars
    /\ UNCHANGED nodeVars

\* the transport delivers the next n bytes as one chunk to lp.decode
deliverChunk(n) ==
    /\ ~wire.threw
    /\ n <= MaxChunkLen \/ n = Len(wire.bytes)
    /\ wire' = [wire EXCEPT !.bytes = SubSeq(@, n + 1, Len(@)),
                            !.buffer = @ \o SubSeq(wire.bytes, 1, n)]
    /\ UNCHANGED <<send, inst>>
    /\ UNCHANGED clientVars
    /\ UNCHANGED nodeVars

\* receiveFromStream is pulled: lp.decode yields the next complete frame,
\* which is turned into text and parsed; the packet is yielded, or JSON.parse
\* throws
yieldPacket ==
    /\ ~wire.threw
    /\ \E f \in {nextFrame(wire.buffer)} :
           /\ f.ok
           /\ \E text \in {uint8ArrayToString(f.frame)} :
              \E parsed \in {parsePacket(text)} :
                  wire' = [wire EXCEPT
                      !.buffer = f.rest,
                      !.received = IF parsed.ok THEN Append(@, parsed.packet) ELSE @,
                      !.threw = ~parsed.ok]
    /\ UNCHANGED <<send, inst>>
    /\ UNCHANGED clientVars
    /\ UNCHANGED nodeVars

CodecNext ==
    \/ \E p \in CodecPackets : writePacket(p)
    \/ \E n \in 1..Len(wire.bytes) : deliverChunk(n)
    \/ yieldPacket

CodecSpec == CodecInit /\ [][CodecNext]_vars

(***************************************************************************)
(* Claims about the codec.                                                 *)
(***************************************************************************)
\* C20: decoding the bytes that encoding a packet p produces yields exactly
\* one packet, equal to p, with nothing left over: for every packet written,
\* with or without a request id, and, on a stream that carried one packet,
\* for what the reader has yielded once every byte is delivered and read.
C20_RoundTrip ==
    /\ \A i \in DOMAIN wire.sent :
           /\ decodeBytes(encodePacket(wire.sent[i])) =
                  [packets |-> <<wire.sent[i]>>, threw |-> FALSE]
           /\ lpDecodeBytes(encodePacket(wire.sent[i])).rest = <<>>
    /\ Len(wire.sent) = 1 /\ wire.bytes = <<>> /\ ~nextFrame(wire.buffer).ok =>
           /\ wire.received = wire.sent
           /\ wire.buffer = <<>>
           /\ ~wire.threw

\* a packet without a request id and with a payload that is not ASCII has
\* been written, delivered and read back
C20_Witness ==
    /\ Len(wire.sent) = 1
    /\ wire.sent[1].request_id = undefined
    /\ wire.sent[1].data = JsonString(<<"h", "é">>)
    /\ wire.bytes = <<>>
    /\ wire.received = wire.sent

\* the bytes of a stream on which the packets were written one after another
RECURSIVE encodeAll(_)
encodeAll(packets) ==
    IF packets = <<>> THEN <<>>
    ELSE encodePacket(Head(packets)) \o encodeAll(Tail(packets))

\* the number of bytes the transport has delivered to lp.decode so far
Delivered == Len(encodeAll(wire.sent)) - Len(wire.bytes)

\* C21: however the bytes of encode(p1) ++ encode(p2) are cut into chunks,
\* incremental decoding never throws and yields the packets written, in
\* order: what has been yielded is a prefix of what was written, a packet is
\* yielded only when every byte of its frame has been delivered, the decoder
\* holds exactly the delivered bytes of the frames not yet yielded, and once
\* all bytes are delivered and read the packets yielded are [p1, p2].
C21_ChunkedInOrder ==
    /\ ~wire.threw
    /\ Len(wire.received) <= Len(wire.sent)
    /\ wire.received = SubSeq(wire.sent, 1, Len(wire.received))
    /\ Len(encodeAll(wire.received)) <= Delivered
    /\ wire.buffer =
           SubSeq(encodeAll(wire.sent), Len(encodeAll(wire.received)) + 1, Delivered)
    /\ wire.bytes = <<>> /\ ~nextFrame(wire.buffer).ok =>
           /\ wire.received = wire.sent
           /\ wire.buffer = <<>>

\* two different packets were written back to back; a chunk ended inside the
\* two-byte length prefix of the second, and the first has been yielded while
\* the decoder holds that one byte
C21_Witness ==
    /\ Len(wire.sent) = 2
    /\ wire.sent[1] # wire.sent[2]
    /\ wire.sent[2].data = JsonString(LongString)
    /\ wire.received = <<wire.sent[1]>>
    /\ Len(wire.buffer) = 1
    /\ wire.bytes # <<>>

\* both packets of a stream cut into chunks have been yielded, in order
BothYielded ==
    /\ Len(wire.sent) = 2
    /\ wire.sent[1] # wire.sent[2]
    /\ wire.received = wire.sent

(***************************************************************************)
(* Claims about correlation, disconnects and the identify stream.          *)
(***************************************************************************)
\* C22: a response read on the identify stream of request R is accepted only
\* if its request id is R; one that carries the id of another request that is
\* still pending leaves that request's pending entry in place and adds no
\* record.
C22_OnlyOwnIdAccepted ==
    [][\A a \in Attempts : \A msg \in InboundPackets :
          ( /\ receiveResponse(a, msg)
            /\ msg.event = "response"
            /\ msg.request_id # att[a].request_id
            /\ MapHas(requests, msg.request_id) )
          => /\ MapHas(requests', msg.request_id)
             /\ llmPeerMap' = llmPeerMap]_vars

\* the part of C22 the code keeps: a response whose id is in no pending entry
\* is not accepted
UnknownIdNotAccepted ==
    \A a \in Attempts :
        Consumed(a) /\ Got(a).accepted =>
            /\ Got(a).msg.request_id \in AllIds
            /\ removals[Got(a).msg.request_id] = <<"response">>

\* C23: once a disconnect notification for peer P has been processed while a
\* handshake with P was pending, that handshake adds no record for P.
C23_NoRecordAfterDisconnect ==
    [][\A a \in Attempts : \A msg \in InboundPackets :
          receiveResponse(a, msg) /\ att[a].lost # <<>>
              => RecordsOf(llmPeerMap', att[a].peerId)
                     = RecordsOf(llmPeerMap, att[a].peerId)]_vars

\* C24: the response task consumes at most one packet of an identify stream.
\* After the first packet, whatever its event or request id, the stream is
\* closed and the task has stopped; if that packet was not accepted, the
\* pending entry of the stream's request is removed by the timeout or not at
\* all.
C24_OnePacketOnly ==
    \A a \in Attempts :
        /\ Len(att[a].got) <= 1
        /\ Consumed(a) /\ Got(a).msg # NonJson =>
               att[a].reader = "done" /\ att[a].stream = "closed"
        /\ Consumed(a) /\ Got(a).msg # NonJson /\ ~Got(a).accepted =>
               removals[att[a].request_id] \in {<<>>, <<"timeout">>}

\* the part of C24 the code keeps: one packet at most is consumed, the stream
\* is then closed and the task done unless the task threw while adding
\* records, and when the packet was not accepted a removal of the entry by a
\* response is the work of another stream's task
FirstPacketOnly ==
    \A a \in Attempts :
        /\ Len(att[a].got) <= 1
        /\ Consumed(a) /\ Got(a).msg # NonJson /\ ~ThrewInLoop(a) =>
               att[a].reader = "done" /\ att[a].stream = "closed"
        /\ ( /\ Consumed(a)
             /\ Got(a).msg # NonJson
             /\ ~Got(a).accepted
             /\ removals[att[a].request_id] = <<"response">> ) =>
               \E b \in Attempts \ {a} :
                   /\ Consumed(b)
                   /\ Got(b).accepted
                   /\ Got(b).msg.request_id = att[a].request_id

(***************************************************************************)
(* Claims about two requests on one message stream.                        *)
(***************************************************************************)
\* C25: the completion packets of the requests read on one message stream
\* are written request after request: when a frame of a later request is
\* written, every earlier request has finished writing, and no frame of an
\* earlier request follows it.
C25_NoInterleaving ==
    \A i \in DOMAIN msgStream.by :
        \A r \in 1..(msgStream.by[i] - 1) :
            /\ relays[r].pc \notin {"create", "piping"}
            /\ \A j \in DOMAIN msgStream.by : msgStream.by[j] = r => j < i

(***************************************************************************)
(* Claims about the records a handshake adds.                              *)
(***************************************************************************)
\* the records a step has appended to llmPeerMap
Added == SubSeq(llmPeerMap', Len(llmPeerMap) + 1, Len(llmPeerMap'))

\* C26: every record an identify handshake adds names the peer that was
\* dialed for that handshake, whatever model list and request id the response
\* carries, and the records already there are left as they are.
C26_RecordNamesDialedPeer ==
    [][\A a \in Attempts : \A msg \in InboundPackets :
          receiveResponse(a, msg) =>
              /\ Len(llmPeerMap') >= Len(llmPeerMap)
              /\ SubSeq(llmPeerMap', 1, Len(llmPeerMap)) = llmPeerMap
              /\ \A i \in DOMAIN Added : Added[i].peerId = att[a].peerId]_vars

\* a response on the stream to one peer carried the request id of the
\* handshake with another peer and was accepted: the record is for the peer
\* of the stream, and the other peer has none
C26_Witness ==
    \E a, b \in Attempts :
        /\ att[a].peerId # att[b].peerId
        /\ Consumed(a)
        /\ Got(a).accepted
        /\ Got(a).msg = MimirPacket("response", att[b].request_id, <<Llama>>)
        /\ RecordsOf(llmPeerMap, att[a].peerId) # {}
        /\ RecordsOf(llmPeerMap, att[b].peerId) = {}

(***************************************************************************)
(* Claims about the end of an identify stream.                             *)
(***************************************************************************)
\* nothing of the invocation is left to run: it ended in its catch block, or
\* its timer callback has run and its response task has finished
Over(a) ==
    \/ att[a].pc \in {"thrown", "caught"}
    \/ /\ att[a].timer \in {"rejected", "noop"}
       /\ att[a].reader \in {"done", "threw"}

\* C27: no identify stream that dialDiscovery opened is left open: once
\* nothing of the invocation is left to run, after the first packet, the
\* timeout or a failed send, the client has closed the stream.
C27_StreamsClosed ==
    \A a \in Attempts : Over(a) => att[a].stream # "open"

\* the part of C27 the code keeps: the stream is closed after the first
\* packet unless the task threw while adding records, after a timeout that
\* found the pending entry, and after a failed send
ClosedWhereTheCodeCloses ==
    \A a \in Attempts :
        /\ Consumed(a) /\ Got(a).msg # NonJson /\ ~ThrewInLoop(a) =>
               att[a].stream = "closed"
        /\ att[a].timer = "rejected" => att[a].stream = "closed"
        /\ att[a].pc \in {"thrown", "caught"} => att[a].stream # "open"

\* the name is a key of the catalog
InCatalog(model) == model \in DOMAIN llmCidMap

\* the records the claim expects for a returned list: one for every name that
\* is a key of the catalog
Expected(peerId, data) ==
    [i \in 1..Len(SelectSeq(data, InCatalog)) |->
        LLMPeer(peerId, llmCidMap[SelectSeq(data, InCatalog)[i]])]

\* C28: an accepted identify response adds one record for every returned
\* model name that the catalog has and none for any other name, and it
\* removes the pending entry whatever the list holds.
C28_CatalogModelsAdded ==
    [][\A a \in Attempts : \A msg \in InboundPackets :
          receiveResponse(a, msg) /\ Accepts(msg) =>
              /\ Added = Expected(att[a].peerId, msg.data)
              /\ ~MapHas(requests', msg.request_id)]_vars

\* the part of C28 the code keeps: the pending entry is always removed, every
\* record added carries a content address of the catalog, and a list without
\* an inherited name adds exactly the records expected
CatalogModelsAddedUnlessThrown ==
    [][\A a \in Attempts : \A msg \in InboundPackets :
          receiveResponse(a, msg) /\ Accepts(msg) =>
              /\ ~MapHas(requests', msg.request_id)
              /\ \A i \in DOMAIN Added :
                     Added[i] = LLMPeer(att[a].peerId, llmCidMap[Llama])
              /\ ~CIDparseThrows(msg.data) =>
                     Added = Expected(att[a].peerId, msg.data)]_vars

(***************************************************************************)
(* Disconnect notifications on a directory with records of several peers   *)
(* while one identify handshake is under way.                              *)
(***************************************************************************)
MaxPending == 1       \* handshakes under way next to the directory

DisconnectNext ==
    \/ \E p \in Peers : Len(att) < MaxPending /\ onDiscovery(p)
    \/ \E p \in Peers : onDisconnect(p)
    \/ \E a \in 1..Len(att) : peerStoreGetResolves(a)
    \/ \E a \in 1..Len(att) : dialProtocolResolves(a)
    \/ \E a \in 1..Len(att) : sendQueryResolves(a)
    \/ \E a \in 1..Len(att) : timerFires(a)
    \/ \E a \in 1..Len(att) : \E msg \in InboundPackets : receiveResponse(a, msg)

DisconnectSpec == SendInit /\ [][DisconnectNext]_vars

\* the records of set that are not the peer's, in the order of set
RecordsOfOthers(set, peerId) ==
    LET Other(peer) == peer.peerId # peerId
    IN  SelectSeq(set, Other)

\* C30: a disconnect notification for peer P changes P's records and nothing
\* else: llmPeerMap afterwards is the records of the other peers, all of them
\* and in their order of insertion, and the pending map is the same, the
\* entries of identify requests addressed to P included.
C30_DisconnectFrame ==
    [][\A p \in Peers :
          onDisconnect(p) =>
              /\ llmPeerMap' = RecordsOfOthers(llmPeerMap, p)
              /\ requests' = requests
              /\ removals' = removals
              /\ \A a \in Attempts :
                     /\ att'[a].pc = att[a].pc
                     /\ att'[a].stream = att[a].stream
                     /\ att'[a].timer = att[a].timer
                     /\ att'[a].reader = att[a].reader]_vars

\* a disconnect notification for a peer found records of that peer between
\* records of two other peers while an identify request to it was pending:
\* the two other records are left, in their order, and so is the pending entry
C30_Witness ==
    \E a \in Attempts :
        /\ att[a].lost # <<>>
        /\ Len(att[a].lost[1]) = 3
        /\ att[a].lost[1][2].peerId = att[a].peerId
        /\ att[a].lost[1][1].peerId # att[a].peerId
        /\ att[a].lost[1][3].peerId \notin {att[a].peerId, att[a].lost[1][1].peerId}
        /\ llmPeerMap = <<att[a].lost[1][1], att[a].lost[1][3]>>
        /\ MapHas(requests, att[a].request_id)
        /\ requests[att[a].request_id] = fullMultiaddr(att[a].peerId)

(***************************************************************************)
(* Claims about a failed dial in sendMessage.                              *)
(***************************************************************************)
\* the dial of call c was issued and failed: dialPeer returned null
DialFailed(c) ==
    /\ Len(send[c].dials) = 1
    /\ send[c].stream = "null"
    /\ send[c].pc \notin {"dialProtocol", "peerStore.get"}

\* C29: when the dial of the chosen peer fails, sendMessage rejects with an
\* error and has written no packet, and the step in which it fails writes on
\* no stream and leaves llmPeerMap and the pending map as they were.
C29_DialFailureFails ==
    /\ [](\A c \in Sends :
              DialFailed(c) =>
                  /\ send[c].pc = "rejected"
                  /\ send[c].result \in {"TypeError", "Error"}
                  /\ send[c].sink = <<>>)
    /\ [][\A c \in Sends :
              dialPeerRejects(c) =>
                  /\ DialFailed(c)'
                  /\ \A k \in Sends : send'[k].sink = send[k].sink
                  /\ llmPeerMap' = llmPeerMap
                  /\ requests' = requests
                  /\ att' = att]_vars

\* a call chose a peer from a directory with records, its dial failed and it
\* rejected, while another call on the same directory wrote its packet
C29_Witness ==
    \E c, k \in Sends :
        /\ DialFailed(c)
        /\ send[c].peerId \in Peers
        /\ send[c].result = "TypeError"
        /\ send[c].sink = <<>>
        /\ send[k].result = "stream"
        /\ Len(send[k].sink) = 1
        /\ llmPeerMap = send[c].dir
        /\ llmPeerMap # <<>>

====
